---- MODULE Spec2Model ----
(***************************************************************************)
(* A model of random.js (class Random): the MurmurHash3 seed hash, the     *)
(* Mulberry32 engine and the distribution helpers built on it.             *)
(*                                                                         *)
(* Number representation.  A JavaScript number that holds an integer is    *)
(* the pair <<hi, lo>> with lo \in 0..65535 and hi any integer, standing   *)
(* for hi * 65536 + lo.  Every integer has exactly one such pair, so pairs *)
(* are compared with =.  An int32 has hi \in -32768..32767, a uint32 has   *)
(* hi \in 0..65535; a sum such as state + 0x6D2B79F5 may leave both ranges *)
(* exactly as the JavaScript number does.                                  *)
(***************************************************************************)
EXTENDS Integers, Sequences, FiniteSets, TLC

VARIABLES engines, ret, calls, visited, seedString, hash

vars == <<engines, ret, calls, visited, seedString, hash>>

----------------------------------------------------------------------------
(* 32-bit integer operators of JavaScript on <<hi, lo>> pairs.              *)

Half == 2^16

\* The element of a one-element set.  Only({ e : a \in {x} }) is e with a
\* bound to the value of x: an operand is evaluated once, before the
\* operation that uses it, as JavaScript evaluates it.
Only(S) == CHOOSE v \in S : TRUE

\* the high half of a uint32 and of an int32 with the high 16 bits of h
Unsigned(h) == h % Half

Signed(h) == ((h + 32768) % Half) - 32768

\* x >>> 0
ToUint32(x) == <<Unsigned(x[1]), x[2]>>

\* x | 0
ToInt32(x) == <<Signed(x[1]), x[2]>>

\* x + y on numbers holding integers (exact: no wraparound).
Add(x, y) ==
  Only({ <<a[1] + b[1] + ((a[2] + b[2]) \div Half), (a[2] + b[2]) % Half>> :
         a \in {x}, b \in {y} })

\* a small integer literal (0 <= n < 65536) as a number
Lit(n) == <<0, n>>

\* bit k of a ^ b and of a | b, in place, for a, b >= 0
XorBit(a, b, k) == (((a \div (2^k)) + (b \div (2^k))) % 2) * (2^k)

OrBit(a, b, k) ==
  IF ((a \div (2^k)) % 2) + ((b \div (2^k)) % 2) > 0 THEN 2^k ELSE 0

\* a ^ b and a | b on 16-bit values: the sum of the 16 bits
Xor16(a, b) ==
  (((XorBit(a, b, 0) + XorBit(a, b, 1)) + (XorBit(a, b, 2) + XorBit(a, b, 3)))
   + ((XorBit(a, b, 4) + XorBit(a, b, 5)) + (XorBit(a, b, 6) + XorBit(a, b, 7))))
  + (((XorBit(a, b, 8) + XorBit(a, b, 9)) + (XorBit(a, b, 10) + XorBit(a, b, 11)))
     + ((XorBit(a, b, 12) + XorBit(a, b, 13)) + (XorBit(a, b, 14) + XorBit(a, b, 15))))

Or16(a, b) ==
  (((OrBit(a, b, 0) + OrBit(a, b, 1)) + (OrBit(a, b, 2) + OrBit(a, b, 3)))
   + ((OrBit(a, b, 4) + OrBit(a, b, 5)) + (OrBit(a, b, 6) + OrBit(a, b, 7))))
  + (((OrBit(a, b, 8) + OrBit(a, b, 9)) + (OrBit(a, b, 10) + OrBit(a, b, 11)))
     + ((OrBit(a, b, 12) + OrBit(a, b, 13)) + (OrBit(a, b, 14) + OrBit(a, b, 15))))

\* x ^ y: an int32
BitXor(x, y) ==
  Only({ <<Signed(Xor16(Unsigned(a[1]), Unsigned(b[1]))), Xor16(a[2], b[2])>> :
         a \in {x}, b \in {y} })

\* x | y: an int32
BitOr(x, y) ==
  Only({ <<Signed(Or16(Unsigned(a[1]), Unsigned(b[1]))), Or16(a[2], b[2])>> :
         a \in {x}, b \in {y} })

\* x >>> k, for 0 <= k < 32: a uint32
Shr(x, k) ==
  Only({ IF k < 16
         THEN <<Unsigned(a[1]) \div (2^k),
                (a[2] \div (2^k)) + (a[1] % (2^k)) * (2^(16 - k))>>
         ELSE <<0, Unsigned(a[1]) \div (2^(k - 16))>> : a \in {x} })

\* x << k, for 0 <= k < 32: an int32
Shl(x, k) ==
  Only({ IF k < 16
         THEN <<Signed((a[1] % (2^(16 - k))) * (2^k) + (a[2] \div (2^(16 - k)))),
                (a[2] % (2^(16 - k))) * (2^k)>>
         ELSE <<Signed((a[2] % (2^(32 - k))) * (2^(k - 16))), 0>> : a \in {x} })

\* the low 16 bits of a * b, and the rest of a * b above them, for 16-bit
\* a and b (every product here stays below 2^31)
MulLow(a, b) == ((a % 256) * b + (((a \div 256) * b) % 256) * 256) % Half

MulHigh(a, b) ==
  (((a % 256) * b + (((a \div 256) * b) % 256) * 256) \div Half)
  + (((a \div 256) * b) \div 256)

\* Math.imul(x, y): the low 32 bits of the product, as an int32
Imul(x, y) ==
  Only({ <<Signed(MulHigh(a[2], b[2])
                  + MulLow(Unsigned(a[1]), b[2]) + MulLow(a[2], Unsigned(b[1]))),
           MulLow(a[2], b[2])>> : a \in {x}, b \in {y} })

----------------------------------------------------------------------------
(* static generateSeed (seedString): MurmurHash3.  A string is the         *)
(* sequence of its UTF-16 code units (charCodeAt).                          *)

HashInit == <<33052, 40389>>     \* 2166136261 = 0x811C9DC5
HashC1   == <<52382, 11601>>     \* 3432918353 = 0xCC9E2D51
HashC2   == <<7047, 13715>>      \*  461845907 = 0x1B873593
HashC3   == <<58964, 27492>>     \* 3864292196 = 0xE6546B64
HashF1   == <<34283, 51819>>     \* 2246822507 = 0x85EBCA6B
HashF2   == <<49842, 44597>>     \* 3266489909 = 0xC2B2AE35

\* (x << n) | (x >>> (32 - n))
Rotl(x, n) == BitOr(Shl(x, n), Shr(x, 32 - n))

\* x ^ (x >>> n)
XorShr(x, n) == BitXor(x, Shr(x, n))

\* let k = Math.imul(seedString.charCodeAt(i), 3432918353);
\* k = (k << 15) | (k >>> 17);
HashK(c) == Only({ Rotl(k, 15) : k \in {Imul(Lit(c), HashC1)} })

\* h ^= Math.imul(k, 461845907); h = (h << 13) | (h >>> 19);
HashMix(h, k) == Only({ Rotl(h1, 13) : h1 \in {BitXor(h, Imul(k, HashC2))} })

\* h = (Math.imul(h, 5) + 3864292196) | 0;
HashAdd(h) == BitOr(Add(Imul(h, Lit(5)), HashC3), Lit(0))

\* one iteration of the loop body for code unit c, from accumulator h
HashStep(h, c) == Only({ HashAdd(h1) : h1 \in {HashMix(h, HashK(c))} })

\* for (let i = 0; i < seedString.length; i++): the iterations from the i-th
\* code unit on.  Each iteration's h is computed before the next one starts.
RECURSIVE HashLoop(_, _, _)
HashLoop(h, s, i) ==
  IF i > Len(s) THEN h
  ELSE Only({ HashLoop(h1, s, i + 1) : h1 \in {HashStep(h, s[i])} })

\* h ^= h >>> 16; h = Math.imul(h, 2246822507);
\* h ^= h >>> 13; h = Math.imul(h, 3266489909);
Avalanche(h) ==
  Only({ Imul(XorShr(h1, 13), HashF2) : h1 \in {Imul(XorShr(h, 16), HashF1)} })

\* as HashFinal, without the conversion to unsigned: h ^= h >>> 16
HashFinalSigned(h) == XorShr(h, 16)

\* h = (h ^= h >>> 16) >>> 0
HashFinal(h) == Shr(XorShr(h, 16), 0)

\* h ^= seedString.length, and the statements after it
HashEnd(h, n) == Only({ HashFinal(h1) : h1 \in {Avalanche(BitXor(h, Lit(n)))} })

generateSeed(s) ==
  Only({ HashEnd(h, Len(s)) : h \in {HashLoop(Shr(HashInit, 0), s, 1)} })

----------------------------------------------------------------------------
(* Values.  A float result is kept exactly, in fixed point: the record      *)
(* [int, frac] stands for int + frac / 2^32 with frac a uint32 pair.  For   *)
(* integer bounds of magnitude below 2^20 every product and sum of next is  *)
(* exact in IEEE doubles, so the fixed-point value is the value returned.   *)

Zero32 == <<0, 0>>

Number(i, f) == [tag |-> "number", int |-> i, frac |-> f]

Boolean(b) == [tag |-> "boolean", int |-> IF b THEN 1 ELSE 0, frac |-> Zero32]

Undefined == [tag |-> "undefined", int |-> 0, frac |-> Zero32]

TypeError == [tag |-> "TypeError", int |-> 0, frac |-> Zero32]

\* x < y on numbers
Less(x, y) ==
  \/ x.int < y.int
  \/ /\ x.int = y.int
     /\ \/ x.frac[1] < y.frac[1]
        \/ x.frac[1] = y.frac[1] /\ x.frac[2] < y.frac[2]

IsInteger(x) == x.tag = "number" /\ x.frac = Zero32

----------------------------------------------------------------------------
(* The engine: the private fields #seed, #state and #round of one instance. *)

Increment == <<27947, 31221>>    \* 0x6D2B79F5

\* set state (state): a nullish argument keeps the field
Nullish == <<>>

setState(e, x) == [e EXCEPT !.state = IF x = Nullish THEN e.state ELSE x]

\* set round (round)
setRound(e, r) == [e EXCEPT !.round = r]

\* constructor (seed, round)
construct(seed, round) ==
  setRound(setState([seed |-> seed, state |-> Nullish, round |-> Nullish], seed), round)

\* as assignSeed, had the class a setter that reseeds the instance
seedSetter(e, s) == [e EXCEPT !.seed = s, !.state = s]

\* `random.seed = s`: the class defines get seed () and no setter, so the
\* assignment stores nothing (and throws a TypeError in strict-mode code).
assignSeed(e, s) == e

\* as Advance, without `this.#state |= 0`
AdvanceUnconverted(state) == Add(state, BitOr(Increment, Lit(0)))

\* as Advance, with the even increment 0x6D2B79F4
AdvanceEven(state) == Add(BitOr(state, Lit(0)), <<27947, 31220>>)

\* this.#state |= 0; this.#state += 0x6D2B79F5 | 0;
Advance(state) == Add(BitOr(state, Lit(0)), BitOr(Increment, Lit(0)))

\* let t = Math.imul(this.#state ^ (this.#state >>> 15), 1 | this.#state);
Mix1(state) == Imul(XorShr(state, 15), BitOr(Lit(1), state))

\* t ^= t + Math.imul(t ^ (t >>> 7), 61 | t);
Mix2(t) == BitXor(t, Add(t, Imul(XorShr(t, 7), BitOr(Lit(61), t))))

\* as Numerator, without the conversion to unsigned: t ^ (t >>> 14)
NumeratorSigned(t) == XorShr(t, 14)

\* (t ^ (t >>> 14)) >>> 0, the numerator of `random`
Numerator(t) == Shr(XorShr(t, 14), 0)

\* (n / 4294967296 * (max - min)) + min, for integers min and max
Scale(n, min, max) ==
  LET d  == max - min
      lo == n[2] * d
      hi == n[1] * d + (lo \div Half)
  IN  Number(min + (hi \div Half), <<hi % Half, lo % Half>>)

\* the rest of next, from the advanced state s
Draw(e, s, min, max) ==
  Only({ [engine |-> [e EXCEPT !.state = s],
          value  |-> Scale(Numerator(Mix2(t)), min, max)] : t \in {Mix1(s)} })

\* as next, advancing from #seed where the code reads #state
nextFromSeed(e, min, max) == Draw(e, Advance(e.seed), min, max)

\* next (min, max): the engine after the call and the value returned
next(e, min, max) == Draw(e, Advance(e.state), min, max)

----------------------------------------------------------------------------
(* Math[this.round] on a fixed-point number.                                *)

Rounds == {"floor", "ceil", "trunc", "round"}

MathFloor(x) == Number(x.int, Zero32)

MathCeil(x) == Number(x.int + (IF x.frac = Zero32 THEN 0 ELSE 1), Zero32)

\* toward zero: a value below zero has int < 0 (frac is never negative)
MathTrunc(x) == IF x.int >= 0 THEN MathFloor(x) ELSE MathCeil(x)

\* floor(x + 0.5): halves go up
MathRound(x) == Number(x.int + (IF x.frac[1] >= 32768 THEN 1 ELSE 0), Zero32)

\* Math[round](x); a name that is no function of Math makes the call throw
\* (after the argument, and so the draw, has been evaluated)
MathCall(round, x) ==
  CASE round = "floor" -> MathFloor(x)
    [] round = "ceil"  -> MathCeil(x)
    [] round = "trunc" -> MathTrunc(x)
    [] round = "round" -> MathRound(x)
    [] OTHER           -> TypeError

\* a result with its value replaced
Returning(r, value) == [engine |-> r.engine, value |-> value]

\* Math[round](r.value), r the result of the draw
Rounded(round, r) == Returning(r, MathCall(round, r.value))

\* as nextInt, with the policy looked up and refused before the draw
nextIntValidated(e, min, max, maxIncluded) ==
  IF e.round \in Rounds
  THEN Rounded(e.round, next(e, min, max + (IF maxIncluded THEN 1 ELSE 0)))
  ELSE [engine |-> e, value |-> TypeError]

\* as nextInt, with the upper bound always included
nextIntInclusive(e, min, max, maxIncluded) ==
  Rounded(e.round, next(e, min, max + 1))

\* nextInt (min, max, maxIncluded)
nextInt(e, min, max, maxIncluded) ==
  Rounded(e.round, next(e, min, max + (IF maxIncluded THEN 1 ELSE 0)))

\* as Below, with <= for <
BelowOrEqual(r, probabilityTrue) ==
  Returning(r, Boolean(~Less(probabilityTrue, r.value)))

\* r.value < probabilityTrue, r the result of next()
Below(r, probabilityTrue) == Returning(r, Boolean(Less(r.value, probabilityTrue)))

\* nextBoolean (probabilityTrue)
nextBoolean(e, probabilityTrue) == Below(next(e, 0, 1), probabilityTrue)

\* r.value ? +1 : -1, r the result of nextBoolean
Sign(r) == Returning(r, Number(IF r.value.int = 1 THEN 1 ELSE -1, Zero32))

\* nextSign (probabilityPositive)
nextSign(e, probabilityPositive) == Sign(nextBoolean(e, probabilityPositive))

\* let u = 0; while (u === 0) u = this.next();
RECURSIVE DrawNonZero(_)
\* as Redraw, accepting a draw of 0
KeepDraw(r) == r

Redraw(r) == IF r.value = Number(0, Zero32) THEN DrawNonZero(r.engine) ELSE r

DrawNonZero(e) == Only({ Redraw(r) : r \in {next(e, 0, 1)} })

\* The float that the Box-Muller and skew-normal lines compute from the two
\* accepted draws u, v and the arguments.  Its digits come from Math.log,
\* Math.sqrt, Math.cos and Math.sin and are not evaluated here: the value is
\* identified by what it is computed from.
Normal(u, v, mean, stdDev, skewness) ==
  [tag |-> "normal", u |-> u, v |-> v,
   mean |-> mean, stdDev |-> stdDev, skewness |-> skewness]

BoxMuller(u, v, mean, stdDev, skewness) ==
  Returning(v, Normal(u.value.frac, v.value.frac, mean, stdDev, skewness))

\* let v = 0; while (v === 0) v = this.next();
SecondDraw(u, mean, stdDev, skewness) ==
  Only({ BoxMuller(u, v, mean, stdDev, skewness) : v \in {DrawNonZero(u.engine)} })

\* nextNormal (mean, stdDev, skewness)
nextNormal(e, mean, stdDev, skewness) ==
  Only({ SecondDraw(u, mean, stdDev, skewness) : u \in {DrawNonZero(e)} })

\* Math[round](r.value), r the result of nextNormal
RoundedNormal(round, r) ==
  Returning(r, IF round \in Rounds
               THEN [tag |-> "integer", round |-> round, of |-> r.value]
               ELSE TypeError)

\* nextNormalInt (mean, stdDev, skewness)
nextNormalInt(e, mean, stdDev, skewness) ==
  Only({ RoundedNormal(e.round, r) : r \in {nextNormal(e, mean, stdDev, skewness)} })

----------------------------------------------------------------------------
(* Operations on instances.  The instances in I each perform the operation  *)
(* `op` with arguments `args` in one step; res[i] is what it does to        *)
(* instance i: the instance after it and what the caller gets back.         *)

\* the function f on the set D, with each f[i] computed once
RECURSIVE Computed(_, _)
Computed(f, D) ==
  IF D = {} THEN <<>>
  ELSE Only({ (i :> f[i]) @@ Computed(f, D \ {i}) : i \in {CHOOSE j \in D : TRUE} })

Apply(I, op, args, res) ==
  \E r \in {Computed(res, I)} :
    /\ engines' = [i \in DOMAIN engines |->
                     IF i \in I THEN r[i].engine ELSE engines[i]]
    /\ ret' = [i \in DOMAIN ret |->
                 IF i \in I
                 THEN [op |-> op, args |-> args, value |-> r[i].value]
                 ELSE ret[i]]
    /\ calls' = [i \in DOMAIN calls |-> IF i \in I THEN calls[i] + 1 ELSE calls[i]]

Rest == <<visited, seedString, hash>>

CallNext(I, min, max) ==
  /\ Apply(I, "next", <<min, max>>, [i \in I |-> next(engines[i], min, max)])
  /\ UNCHANGED Rest

CallNextInt(I, min, max, maxIncluded) ==
  /\ Apply(I, "nextInt", <<min, max, maxIncluded>>,
           [i \in I |-> nextInt(engines[i], min, max, maxIncluded)])
  /\ UNCHANGED Rest

CallNextBoolean(I, p) ==
  /\ Apply(I, "nextBoolean", <<p>>, [i \in I |-> nextBoolean(engines[i], p)])
  /\ UNCHANGED Rest

CallNextSign(I, p) ==
  /\ Apply(I, "nextSign", <<p>>, [i \in I |-> nextSign(engines[i], p)])
  /\ UNCHANGED Rest

CallNextNormal(I, mean, stdDev, skewness) ==
  /\ Apply(I, "nextNormal", <<mean, stdDev, skewness>>,
           [i \in I |-> nextNormal(engines[i], mean, stdDev, skewness)])
  /\ UNCHANGED Rest

CallNextNormalInt(I, mean, stdDev, skewness) ==
  /\ Apply(I, "nextNormalInt", <<mean, stdDev, skewness>>,
           [i \in I |-> nextNormalInt(engines[i], mean, stdDev, skewness)])
  /\ UNCHANGED Rest

SetState(I, x) ==
  /\ Apply(I, "set state", <<x>>,
           [i \in I |-> [engine |-> setState(engines[i], x), value |-> Undefined]])
  /\ UNCHANGED Rest

SetRound(I, r) ==
  /\ Apply(I, "set round", <<r>>,
           [i \in I |-> [engine |-> setRound(engines[i], r), value |-> Undefined]])
  /\ UNCHANGED Rest

\* `random.seed = s`: ignored in sloppy-mode code, a TypeError in strict-mode
\* code; `outcome` is which.
AssignSeed(I, s, outcome) ==
  /\ Apply(I, "set seed", <<s>>,
           [i \in I |-> [engine |-> assignSeed(engines[i], s), value |-> outcome]])
  /\ UNCHANGED Rest

----------------------------------------------------------------------------
(* Inputs.                                                                  *)

MaxCalls == 2

SeedText == <<115, 101, 101, 100>>       \* "seed"

Seeds ==
  { <<0, 12345>>,                        \* 12345
    <<32768, 0>>,                        \* 2^31
    <<37588, 34315>>,                    \* 2463401483: the draw from it is 0
    generateSeed(SeedText) }

RoundNames == Rounds \cup {"nearest"}    \* "nearest" is no function of Math

Ranges == { <<0, 1>>, <<0, 10>>, <<-3, -1>> }

Probabilities == { Number(0, Zero32), Number(0, <<32768, 0>>), Number(1, Zero32) }

NormalArgs == { <<0, 1, 0>>, <<5, 2, 1>> }

StateValues == { Nullish, <<0, 0>>, <<-1, 65531>> }      \* undefined, 0, -5

Ignored == [tag |-> "ignored", int |-> 0, frac |-> Zero32]

NewRet == [op |-> "new", args |-> <<>>, value |-> Undefined]

\* every instance in I has made fewer than n calls
Within(I, n) == \A i \in I : calls[i] < n

----------------------------------------------------------------------------
(* Spec: one instance, after `new Random(seed, round)`, and its operations. *)

Init ==
  /\ \E seed \in Seeds, round \in RoundNames :
       engines = [i \in {1} |-> construct(seed, round)]
  /\ ret = [i \in {1} |-> NewRet]
  /\ calls = [i \in {1} |-> 0]
  /\ visited = {}
  /\ seedString = <<>>
  /\ hash = Nullish

Next ==
  \/ \E r \in Ranges :
       Within({1}, MaxCalls) /\ CallNext({1}, r[1], r[2])
  \/ \E r \in Ranges, inc \in BOOLEAN :
       Within({1}, MaxCalls) /\ CallNextInt({1}, r[1], r[2], inc)
  \/ \E p \in Probabilities :
       Within({1}, MaxCalls) /\ CallNextBoolean({1}, p)
  \/ \E p \in Probabilities :
       Within({1}, MaxCalls) /\ CallNextSign({1}, p)
  \/ \E a \in NormalArgs :
       Within({1}, MaxCalls) /\ CallNextNormal({1}, a[1], a[2], a[3])
  \/ \E a \in NormalArgs :
       Within({1}, MaxCalls) /\ CallNextNormalInt({1}, a[1], a[2], a[3])
  \/ \E x \in StateValues :
       Within({1}, MaxCalls) /\ SetState({1}, x)
  \/ \E r \in RoundNames :
       Within({1}, MaxCalls) /\ SetRound({1}, r)
  \/ \E s \in Seeds, o \in {Ignored, TypeError} :
       Within({1}, MaxCalls) /\ AssignSeed({1}, s, o)

Spec == Init /\ [][Next]_vars

----------------------------------------------------------------------------
(* Properties of one instance (Spec).                                       *)

IsUint32(x) == x # Nullish /\ x[1] \in 0..65535 /\ x[2] \in 0..65535

\* instance i makes a call of `op` in this step
Calls(i, op) == calls'[i] = calls[i] + 1 /\ ret'[i].op = op

\* C2: after every call of next() on a state in [0, 2^32), the state read back
\* is a uint32 and is (previous state + 0x6D2B79F5) mod 2^32.
StateWrapsUnsigned ==
  [][\A i \in DOMAIN engines :
       (IsUint32(engines[i].state) /\ Calls(i, "next"))
         => /\ IsUint32(engines'[i].state)
            /\ engines'[i].state = ToUint32(Add(engines[i].state, Increment))]_vars

\* C3: next(min, max) with min < max returns r with min <= r < max; r is
\* int + frac / 2^32 with 0 <= frac < 2^32, so that is min <= int <= max - 1
\* (and next() returns frac / 2^32, never 1).
NextInRange ==
  \A i \in DOMAIN ret :
    (ret[i].op = "next" /\ ret[i].args[1] < ret[i].args[2])
      => /\ ret[i].value.tag = "number"
         /\ IsUint32(ret[i].value.frac)
         /\ ret[i].value.int >= ret[i].args[1]
         /\ ret[i].value.int <= ret[i].args[2] - 1

\* next(0, 10) returned a value in [9, 10), just under max
NextNearMax ==
  \E i \in DOMAIN ret :
    /\ ret[i].op = "next" /\ ret[i].args = <<0, 10>>
    /\ ret[i].value.int = 9 /\ ret[i].value.frac # Zero32

\* C6: under each of floor, ceil, trunc and round, nextInt(min, max) with
\* min < max returns an integer r with min <= r < max, and
\* nextInt(min, max, true) an integer r with min <= r <= max.
NextIntInRange ==
  \A i \in DOMAIN ret :
    (/\ ret[i].op = "nextInt"
     /\ engines[i].round \in Rounds
     /\ ret[i].args[1] < ret[i].args[2])
      => /\ IsInteger(ret[i].value)
         /\ ret[i].value.int >= ret[i].args[1]
         /\ ret[i].value.int <= ret[i].args[2]
         /\ ~ret[i].args[3] => ret[i].value.int < ret[i].args[2]

\* C7: under trunc, nextInt(0, 10) returns an integer in 0..9, never 10.
TruncNeverTen ==
  \A i \in DOMAIN ret :
    (/\ ret[i].op = "nextInt"
     /\ ret[i].args = <<0, 10, FALSE>>
     /\ engines[i].round = "trunc")
      => IsInteger(ret[i].value) /\ ret[i].value.int \in 0..9

\* under trunc, nextInt(0, 10, true) returned 10
TruncInclusiveTen ==
  \E i \in DOMAIN ret :
    /\ ret[i].op = "nextInt"
    /\ ret[i].args = <<0, 10, TRUE>>
    /\ engines[i].round = "trunc"
    /\ ret[i].value = Number(10, Zero32)

\* C8: nextBoolean(0) returns false and nextBoolean(1) returns true.
BooleanBoundaries ==
  \A i \in DOMAIN ret :
    ret[i].op = "nextBoolean"
      => /\ ret[i].args = <<Number(0, Zero32)>> => ret[i].value = Boolean(FALSE)
         /\ ret[i].args = <<Number(1, Zero32)>> => ret[i].value = Boolean(TRUE)

\* nextBoolean(0) returned false on a draw of exactly 0 (only the state word
\* 0 is reached here with a draw of 0)
BooleanZeroDraw ==
  \E i \in DOMAIN ret :
    /\ ret[i].op = "nextBoolean"
    /\ ret[i].args = <<Number(0, Zero32)>>
    /\ engines[i].state = Zero32
    /\ ret[i].value = Boolean(FALSE)

\* C9: no step changes the seed of an instance.
SeedImmutable ==
  [][\A i \in DOMAIN engines : engines'[i].seed = engines[i].seed]_vars

\* after a draw, `seed = s` with another s was tried and the seed is as before
SeedKept ==
  \E i \in DOMAIN ret :
    /\ calls[i] = 2
    /\ ret[i].op = "set seed"
    /\ ret[i].args[1] # engines[i].seed
    /\ engines[i].state # engines[i].seed

\* C10: after `random.seed = s` the seed is s and the draws are those of a
\* generator seeded with s (whose state is s).
SeedAssigned ==
  \A i \in DOMAIN ret :
    ret[i].op = "set seed"
      => engines[i].seed = ret[i].args[1] /\ engines[i].state = ret[i].args[1]

----------------------------------------------------------------------------
(* PairSpec: two instances, each constructed with its own seed.  Either one *)
(* may draw or be configured alone; a joint step makes the same call on     *)
(* both.                                                                    *)

MaxPairCalls == 3

Both == {1, 2}

PairSeeds == { <<0, 12345>>, <<32768, 0>> }        \* 12345, 2^31

PairInit ==
  /\ \E s1 \in PairSeeds, s2 \in PairSeeds :
       engines = [i \in Both |-> construct(IF i = 1 THEN s1 ELSE s2, "trunc")]
  /\ ret = [i \in Both |-> NewRet]
  /\ calls = [i \in Both |-> 0]
  /\ visited = {}
  /\ seedString = <<>>
  /\ hash = Nullish

PairNext ==
  \/ \E i \in Both :
       Within({i}, MaxPairCalls) /\ CallNext({i}, 0, 1)
  \/ \E i \in Both :
       Within({i}, MaxPairCalls) /\ SetRound({i}, "ceil")
  \/ \E x \in StateValues :
       Within(Both, MaxPairCalls) /\ SetState(Both, x)
  \/ Within(Both, MaxPairCalls) /\ CallNext(Both, 0, 10)
  \/ \E inc \in BOOLEAN :
       Within(Both, MaxPairCalls) /\ CallNextInt(Both, 0, 10, inc)
  \/ Within(Both, MaxPairCalls) /\ CallNextBoolean(Both, Number(0, <<32768, 0>>))
  \/ Within(Both, MaxPairCalls) /\ CallNextSign(Both, Number(0, <<32768, 0>>))

PairSpec == PairInit /\ [][PairNext]_vars

Draws == {"next", "nextInt", "nextBoolean", "nextSign"}

\* both instances make the same draw, with the same arguments, in this step
SameDraw ==
  /\ \A i \in Both : calls'[i] = calls[i] + 1
  /\ ret'[1].op \in Draws
  /\ ret'[1].op = ret'[2].op
  /\ ret'[1].args = ret'[2].args

\* C1: two instances that hold the same state and the same rounding policy
\* return the same value for the same draw and hold the same state after it,
\* whatever their seeds and whatever each did before.
Deterministic ==
  [][(/\ engines[1].state = engines[2].state
      /\ engines[1].round = engines[2].round
      /\ SameDraw)
       => /\ ret'[1].value = ret'[2].value
          /\ engines'[1].state = engines'[2].state]_vars

\* instances with different seeds and different numbers of calls behind them
\* were given the same state and then returned the same nextInt
SameAfterSetState ==
  /\ engines[1].seed # engines[2].seed
  /\ calls[1] # calls[2]
  /\ ret[1].op = "nextInt"
  /\ ret[1] = ret[2]
  /\ engines[1].state = engines[2].state

----------------------------------------------------------------------------
(* PeriodSpec: one instance drawing 2^PeriodBits times.  `visited` holds    *)
(* the low PeriodBits bits of every state taken so far; these bits of the   *)
(* state evolve by the same addition as the whole word, modulo              *)
(* 2^PeriodBits.                                                            *)

PeriodBits == 8

Period == 2^PeriodBits

LowBits(x) == x[2] % Period

PeriodInit ==
  /\ \E seed \in Seeds :
       /\ engines = [i \in {1} |-> construct(seed, "trunc")]
       /\ visited = {LowBits(seed)}
  /\ ret = [i \in {1} |-> NewRet]
  /\ calls = [i \in {1} |-> 0]
  /\ seedString = <<>>
  /\ hash = Nullish

PeriodStep ==
  /\ Within({1}, Period)
  /\ Apply({1}, "next", <<0, 1>>, [i \in {1} |-> next(engines[i], 0, 1)])
  /\ visited' = visited \cup {LowBits(engines'[1].state)}
  /\ UNCHANGED <<seedString, hash>>

PeriodNext == PeriodStep

PeriodSpec == PeriodInit /\ [][PeriodNext]_vars

\* C4 (on the low PeriodBits bits of the state): the first 2^PeriodBits
\* states are pairwise different, so they are all the values there are, and
\* the next one is the starting value again.
FullPeriod ==
  /\ calls[1] < Period => Cardinality(visited) = calls[1] + 1
  /\ calls[1] = Period
       => /\ visited = 0 .. (Period - 1)
          /\ LowBits(engines[1].state) = LowBits(engines[1].seed)

\* the cycle has closed: 2^PeriodBits draws made, every value visited
PeriodClosed == calls[1] = Period /\ Cardinality(visited) = Period

----------------------------------------------------------------------------
(* SeedSpec: generateSeed applied to a string.                              *)

MaxLen == 3

CodeUnits == {0, 97, 945, 65535}         \* NUL, "a", Greek alpha, U+FFFF

RECURSIVE StringsOf(_)
StringsOf(n) ==
  IF n = 0 THEN {<<>>}
  ELSE StringsOf(n - 1) \cup
       {Append(s, c) : s \in {t \in StringsOf(n - 1) : Len(t) = n - 1},
                       c \in CodeUnits}

Strings == StringsOf(MaxLen) \cup {SeedText}

SeedInit ==
  /\ seedString \in Strings
  /\ hash = Nullish
  /\ engines = <<>>
  /\ ret = <<>>
  /\ calls = <<>>
  /\ visited = {}

CallGenerateSeed ==
  /\ hash = Nullish
  /\ hash' = generateSeed(seedString)
  /\ UNCHANGED <<engines, ret, calls, visited, seedString>>

SeedNext == CallGenerateSeed

SeedSpec == SeedInit /\ [][SeedNext]_vars

\* C5: generateSeed returns, for every string, an integer h with
\* 0 <= h < 2^32; for "seed" it is 246123560.
SeedIsUint32 ==
  hash # Nullish
    => /\ IsUint32(hash)
       /\ seedString = SeedText => hash = <<3755, 35880>>

\* a string with a code unit outside ASCII was hashed to a value of 2^31 or
\* more (a negative number before the conversion to unsigned)
SeedHighBit ==
  /\ hash # Nullish
  /\ \E k \in DOMAIN seedString : seedString[k] > 127
  /\ hash[1] >= 32768

----------------------------------------------------------------------------
(* Draw accounting (Spec): how far a call moves #state.                     *)

MaxRedraws == 2

\* the 32-bit word of a state
Word(x) == ToUint32(x)

\* the word k additions of 0x6D2B79F5 after state x
RECURSIVE AfterSteps(_, _)
AfterSteps(x, k) ==
  IF k = 0 THEN Word(x)
  ELSE Only({ AfterSteps(y, k - 1) : y \in {Add(Word(x), Increment)} })

\* the draw made at the k-th step after state x is exactly 0
ZeroAt(x, k) == Only({ Numerator(Mix2(Mix1(w))) : w \in {AfterSteps(x, k)} }) = Zero32

\* y is x advanced by two steps plus one for each draw that was 0: the last
\* step's draw and exactly one before it are not 0
NormalAdvance(x, y) ==
  \E k \in 2 .. (2 + MaxRedraws) :
    /\ Word(y) = AfterSteps(x, k)
    /\ ~ZeroAt(x, k)
    /\ Cardinality({j \in 1 .. k : ~ZeroAt(x, j)}) = 2

\* C11: next, nextInt, nextBoolean and nextSign advance the state by exactly
\* one addition of 0x6D2B79F5 modulo 2^32 whatever their arguments;
\* nextNormal and nextNormalInt by two, plus one for each draw of exactly 0;
\* no call leaves the state as it was, and the instance holds nothing but
\* seed, state and round (no value kept for a later call).
DrawAccounting ==
  [][\A i \in DOMAIN engines :
       /\ (\E op \in Draws : Calls(i, op))
            => /\ Word(engines'[i].state) = AfterSteps(engines[i].state, 1)
               /\ engines'[i].state # engines[i].state
       /\ (Calls(i, "nextNormal") \/ Calls(i, "nextNormalInt"))
            => /\ NormalAdvance(engines[i].state, engines'[i].state)
               /\ engines'[i].state # engines[i].state
       /\ DOMAIN engines'[i] = {"seed", "state", "round"}]_vars

\* the first call, nextNormal, drew 0 first (seed 2463401483) and left the
\* state three steps after the seed
NormalRedrawn ==
  \E i \in DOMAIN ret :
    /\ calls[i] = 1
    /\ ret[i].op = "nextNormal"
    /\ ZeroAt(engines[i].seed, 1)
    /\ Word(engines[i].state) = AfterSteps(engines[i].seed, 3)

----------------------------------------------------------------------------
(* MixSpec: two instances, each constructed with a seed of MixSeeds, that   *)
(* call next() together or alone.                                           *)

MaxMixCalls == 2

MixSeeds ==
  { <<0, 98>>,                           \* 98
    <<0, 9739>>,                         \* 9739: its first draw is that of 98
    <<65536, 98>>,                       \* 2^32 + 98
    <<-1, 65531>>,                       \* -5
    <<65535, 65531>> }                   \* 2^32 - 5

MixInit ==
  /\ \E s1 \in MixSeeds, s2 \in MixSeeds :
       engines = [i \in Both |-> construct(IF i = 1 THEN s1 ELSE s2, "trunc")]
  /\ ret = [i \in Both |-> NewRet]
  /\ calls = [i \in Both |-> 0]
  /\ visited = {}
  /\ seedString = <<>>
  /\ hash = Nullish

MixNext ==
  \/ \E i \in Both :
       Within({i}, MaxMixCalls) /\ CallNext({i}, 0, 1)
  \/ Within(Both, MaxMixCalls) /\ CallNext(Both, 0, 1)

MixSpec == MixInit /\ [][MixNext]_vars

\* both instances call next() in this step
BothNext == \A i \in Both : Calls(i, "next")

\* C12: two states that differ modulo 2^32 never give the same value of
\* next(): the mixing is injective (so bijective) on 32-bit words.
MixInjective ==
  [][(BothNext /\ Word(engines[1].state) # Word(engines[2].state))
       => ret'[1].value # ret'[2].value]_vars

\* C12, amended: the value of next() is a function of the 32-bit word of the
\* state: two states that are equal modulo 2^32, equal as numbers or not,
\* give the same value and leave the same state.
WordDeterminesDraw ==
  [][(BothNext /\ Word(engines[1].state) = Word(engines[2].state))
       => /\ ret'[1].value = ret'[2].value
          /\ engines'[1].state = engines'[2].state]_vars

\* instances seeded with different numbers that are equal modulo 2^32 (98 and
\* 2^32 + 98, or -5 and 2^32 - 5) made their first draw and it is the same
SameWordSameDraw ==
  /\ engines[1].seed # engines[2].seed
  /\ Word(engines[1].seed) = Word(engines[2].seed)
  /\ \A i \in Both : calls[i] = 1 /\ ret[i].op = "next"
  /\ ret[1].value = ret[2].value
  /\ engines[1].state = engines[2].state

----------------------------------------------------------------------------
(* The rounding policy (Spec).                                              *)

\* C13: the round setter stores any name without an error; under a name that
\* is no function of Math, nextInt and nextNormalInt throw, and the state
\* has by then been advanced by the call's draws: one step for nextInt, two
\* plus the re-draws for nextNormalInt.
UnvalidatedRound ==
  [][\A i \in DOMAIN engines :
       /\ Calls(i, "set round")
            => /\ engines'[i].round = ret'[i].args[1]
               /\ ret'[i].value = Undefined
       /\ (engines[i].round \notin Rounds /\ Calls(i, "nextInt"))
            => /\ ret'[i].value = TypeError
               /\ Word(engines'[i].state) = AfterSteps(engines[i].state, 1)
       /\ (engines[i].round \notin Rounds /\ Calls(i, "nextNormalInt"))
            => /\ ret'[i].value = TypeError
               /\ NormalAdvance(engines[i].state, engines'[i].state)]_vars

\* an instance constructed with the round "nearest" made nextInt its first
\* call: the call threw and the state is one step after the seed
ThrownAfterDraw ==
  \E i \in DOMAIN ret :
    /\ calls[i] = 1
    /\ engines[i].round \notin Rounds
    /\ ret[i].op = "nextInt"
    /\ ret[i].value = TypeError
    /\ Word(engines[i].state) = AfterSteps(engines[i].seed, 1)
    /\ engines[i].state # engines[i].seed

====
